---- MODULE Spec2Model ----
(***************************************************************************)
(* Model of the car-KPI tool chain:                                        *)
(*   DataSnatcherICEEV.py  - the collector (catalog step, per-cell         *)
(*                           queries, averages, value-matrix write)        *)
(*   toExcel.py            - the report exporter (load, validate, export)  *)
(*   streamlit_dashboard.py - the dashboard (load, tiles, chart, call-outs)*)
(*                                                                         *)
(* Python values are modelled as tagged records (JSON values), numbers as  *)
(* exact rationals with a flag telling int from float, strings as          *)
(* sequences of atoms (single characters, or opaque chunks of text such as *)
(* a car name), and files as token sequences produced by json.dump and     *)
(* parsed back by json.load.                                               *)
(***************************************************************************)
EXTENDS Integers, Sequences, FiniteSets, TLC

(***************************************************************************)
(* Bounds of the model.                                                    *)
(***************************************************************************)
\* longest content string enumerated for extract_value
MaxLen == 4
\* number of cars a catalog must hold; stands for the 20 of
\* DataSnatcherICEEV.py line 83 and line 96, scaled down
NumCars == 2
\* number of KPIs sampled on regeneration; stands for the 5 of line 111
NumKpis == 2

(***************************************************************************)
(* Numbers.  A number is [int, m, d]: the value m / d in lowest terms; int *)
(* tells a Python int from a float.  A float is modelled by the exact      *)
(* value it stands for, so equal floats are equal records.                 *)
(***************************************************************************)
RECURSIVE Pow10(_)
Pow10(n) == IF n = 0 THEN 1 ELSE 10 * Pow10(n - 1)

RECURSIVE GCD(_, _)
GCD(a, b) == IF b = 0 THEN a ELSE GCD(b, a % b)

Canon(int, m, d) ==
    LET g == GCD(m, d) IN [int |-> int, m |-> m \div g, d |-> d \div g]

IntNum(n) == [int |-> TRUE, m |-> n, d |-> 1]
FloatNum(m, d) == Canon(FALSE, m, d)
Zero == IntNum(0)

IsWhole(x) == x.m % x.d = 0

(***************************************************************************)
(* Characters and strings of the numeric extraction.                       *)
(***************************************************************************)
Digits == {"0", "1", "2", "3", "4", "5", "6", "7", "8", "9"}
Whitespace == {" ", "\n"}

DigitVal(c) ==
    CASE c = "0" -> 0 [] c = "1" -> 1 [] c = "2" -> 2 [] c = "3" -> 3
      [] c = "4" -> 4 [] c = "5" -> 5 [] c = "6" -> 6 [] c = "7" -> 7
      [] c = "8" -> 8 [] c = "9" -> 9

\* str.strip(): drop leading and trailing whitespace
RECURSIVE LStrip(_)
LStrip(s) == IF s # <<>> /\ Head(s) \in Whitespace THEN LStrip(Tail(s)) ELSE s

RECURSIVE RStrip(_)
RStrip(s) ==
    IF s # <<>> /\ s[Len(s)] \in Whitespace
    THEN RStrip(SubSeq(s, 1, Len(s) - 1))
    ELSE s

Strip(s) == RStrip(LStrip(s))

\* re.sub(r'[^\d.]', '', content)
IsNumericChar(c) == c \in Digits \cup {"."}
NumericStr(content) == SelectSeq(content, IsNumericChar)

IsDot(c) == c = "."
IsDigit(c) == c \in Digits

RECURSIVE DigitsToNat(_)
DigitsToNat(ds) ==
    IF ds = <<>> THEN 0
    ELSE 10 * DigitsToNat(SubSeq(ds, 1, Len(ds) - 1)) + DigitVal(ds[Len(ds)])

\* index of the first "." of s (0 when there is none)
RECURSIVE DotIndex(_, _)
DotIndex(s, i) ==
    IF i > Len(s) THEN 0 ELSE IF s[i] = "." THEN i ELSE DotIndex(s, i + 1)

\* float(numeric_str) on a string of digits and dots: ValueError unless it
\* holds at most one dot and at least one digit
ParseFloat(ns) ==
    LET dots == Len(SelectSeq(ns, IsDot))
        ds == SelectSeq(ns, IsDigit)
        d == DotIndex(ns, 1)
    IN IF dots > 1 \/ ds = <<>>
       THEN [ok |-> FALSE, m |-> 0, d |-> 1]
       ELSE [ok |-> TRUE, m |-> DigitsToNat(ds),
             d |-> IF d = 0 THEN 1 ELSE Pow10(Len(ns) - d)]

\* faulty variants of the scaling step: threshold included; division by 100
ExceedsThresholdGe(v) == v.m >= 1000 * v.d
ToThousandsBy100(v) == [m |-> v.m, d |-> v.d * 100]

\* value > 1000
ExceedsThreshold(v) == v.m > 1000 * v.d
\* value = value / 1000
ToThousands(v) == [m |-> v.m, d |-> v.d * 1000]

\* return int(value) if value.is_integer() else value
IntIfWhole(v) ==
    IF IsWhole(v) THEN IntNum(v.m \div v.d) ELSE FloatNum(v.m, v.d)

Returned(n) == [exc |-> "none", val |-> n]
Raised(e) == [exc |-> e, val |-> Zero]

\* a faulty variant of extract_value: the ValueError of float() is not handled
extract_value_unguarded(content) ==
    LET numeric_str == NumericStr(Strip(content))
        p == ParseFloat(numeric_str)
        value == [m |-> p.m, d |-> p.d]
    IN IF ~p.ok THEN Raised("ValueError")
       ELSE Returned(IntIfWhole(IF ExceedsThreshold(value)
                                THEN ToThousands(value) ELSE value))

extract_value(content) ==
    LET numeric_str == NumericStr(Strip(content))
        p == ParseFloat(numeric_str)
        value == [m |-> p.m, d |-> p.d]
    IN IF numeric_str = <<>> THEN Returned(Zero)
       ELSE IF ~p.ok THEN Returned(Zero)
       ELSE Returned(IntIfWhole(IF ExceedsThreshold(value)
                                THEN ToThousands(value) ELSE value))

(***************************************************************************)
(* Content strings tried on extract_value: every string over a small       *)
(* alphabet up to MaxLen, and the strings the scenarios name.              *)
(***************************************************************************)
Alphabet == {"0", "1", "5", ".", "m", " "}

RECURSIVE SeqsUpTo(_, _)
SeqsUpTo(S, n) ==
    IF n = 0 THEN {<<>>}
    ELSE LET shorter == SeqsUpTo(S, n - 1)
         IN shorter \cup {Append(q, c) : q \in shorter, c \in S}

ScenarioContents ==
    { <<"2", "5", "0", "0", "0">>,
      <<"1", "4", ".", "5", " ", "m", "p", "g">>,
      <<"N", "/", "A">>,
      <<"1", ".", "2", ".", "3">>,
      <<"1", "0", "0", "0", ".", "5">>,
      <<"1", "0", "0", "0", ".", "0">>,
      <<"$", "2", ",", "5", "0", "0">> }

Contents == SeqsUpTo(Alphabet, MaxLen) \cup ScenarioContents

(***************************************************************************)
(* Python / JSON values.  Every value is a record [t, s, n, a, m]:         *)
(*   t = "null" | "str" | "num" | "arr" | "obj"                            *)
(*   s  the string (a sequence of atoms)        when t = "str"             *)
(*   n  the number                              when t = "num"             *)
(*   a  the items                               when t = "arr"             *)
(*   m  the members <<[k, v], ...>> in insertion order, keys unique,       *)
(*                                              when t = "obj"             *)
(***************************************************************************)
JNull == [t |-> "null", s |-> <<>>, n |-> Zero, a |-> <<>>, m |-> <<>>]
JStr(x) == [t |-> "str", s |-> x, n |-> Zero, a |-> <<>>, m |-> <<>>]
JNum(x) == [t |-> "num", s |-> <<>>, n |-> x, a |-> <<>>, m |-> <<>>]
JArr(items) == [t |-> "arr", s |-> <<>>, n |-> Zero, a |-> items, m |-> <<>>]
JObj(members) == [t |-> "obj", s |-> <<>>, n |-> Zero, a |-> <<>>, m |-> members]

\* a string literal such as "choices": one opaque atom
Str(x) == <<x>>
Member(k, v) == [k |-> k, v |-> v]
StrList(xs) == JArr([i \in 1..Len(xs) |-> JStr(xs[i])])
StrItems(v) == [i \in 1..Len(v.a) |-> v.a[i].s]

\* key in dict
Has(d, k) == \E i \in 1..Len(d.m) : d.m[i].k = k
\* dict[key], for a key the dict holds
Get(d, k) == d.m[CHOOSE i \in 1..Len(d.m) : d.m[i].k = k].v
\* dict[key] = value
DictSet(d, k, v) ==
    IF Has(d, k)
    THEN JObj([i \in 1..Len(d.m) |->
                 IF d.m[i].k = k THEN Member(k, v) ELSE d.m[i]])
    ELSE JObj(Append(d.m, Member(k, v)))
\* bool(value)
Truthy(v) ==
    CASE v.t = "null" -> FALSE
      [] v.t = "str" -> v.s # <<>>
      [] v.t = "num" -> v.n.m # 0
      [] v.t = "arr" -> v.a # <<>>
      [] v.t = "obj" -> v.m # <<>>

(***************************************************************************)
(* json.dump and json.load.  The text of a file is a sequence of tokens    *)
(* [t, s, n]; a key token stands for the quoted key and its colon, commas  *)
(* are left out.                                                           *)
(***************************************************************************)
Tok(t, s, n) == [t |-> t, s |-> s, n |-> n]
LBrace == Tok("{", <<>>, Zero)
RBrace == Tok("}", <<>>, Zero)
LBrack == Tok("[", <<>>, Zero)
RBrack == Tok("]", <<>>, Zero)

RECURSIVE Dump(_), DumpItems(_), DumpMembers(_)
Dump(v) ==
    CASE v.t = "null" -> <<Tok("null", <<>>, Zero)>>
      [] v.t = "str" -> <<Tok("str", v.s, Zero)>>
      [] v.t = "num" -> <<Tok("num", <<>>, v.n)>>
      [] v.t = "arr" -> <<LBrack>> \o DumpItems(v.a) \o <<RBrack>>
      [] v.t = "obj" -> <<LBrace>> \o DumpMembers(v.m) \o <<RBrace>>
DumpItems(items) ==
    IF items = <<>> THEN <<>> ELSE Dump(Head(items)) \o DumpItems(Tail(items))
DumpMembers(ms) ==
    IF ms = <<>> THEN <<>>
    ELSE <<Tok("key", Head(ms).k, Zero)>> \o Dump(Head(ms).v)
         \o DumpMembers(Tail(ms))

ParseFail == [ok |-> FALSE, v |-> JNull, next |-> 0]
ParseOk(v, next) == [ok |-> TRUE, v |-> v, next |-> next]

\* recursive descent from token i: the value read and the next position
RECURSIVE ParseValue(_, _), ParseItems(_, _, _), ParseMembers(_, _, _)
ParseValue(toks, i) ==
    IF i > Len(toks) THEN ParseFail
    ELSE CASE toks[i].t = "null" -> ParseOk(JNull, i + 1)
           [] toks[i].t = "str" -> ParseOk(JStr(toks[i].s), i + 1)
           [] toks[i].t = "num" -> ParseOk(JNum(toks[i].n), i + 1)
           [] toks[i].t = "[" -> ParseItems(toks, i + 1, <<>>)
           [] toks[i].t = "{" -> ParseMembers(toks, i + 1, JObj(<<>>))
           [] OTHER -> ParseFail
ParseItems(toks, i, acc) ==
    IF i > Len(toks) THEN ParseFail
    ELSE IF toks[i].t = "]" THEN ParseOk(JArr(acc), i + 1)
    ELSE LET r == ParseValue(toks, i)
         IN IF r.ok THEN ParseItems(toks, r.next, Append(acc, r.v))
            ELSE ParseFail
ParseMembers(toks, i, acc) ==
    IF i > Len(toks) THEN ParseFail
    ELSE IF toks[i].t = "}" THEN ParseOk(acc, i + 1)
    ELSE IF toks[i].t # "key" THEN ParseFail
    ELSE LET r == ParseValue(toks, i + 1)
         IN IF r.ok
            THEN ParseMembers(toks, r.next, DictSet(acc, toks[i].s, r.v))
            ELSE ParseFail

\* json.loads(text): the value, or JSONDecodeError
JsonLoads(text) ==
    LET r == ParseValue(text, 1)
    IN IF r.ok /\ r.next = Len(text) + 1
       THEN [exc |-> "none", val |-> r.v]
       ELSE [exc |-> "JSONDecodeError", val |-> JNull]

\* a file: absent, or holding a text
NoFile == [exists |-> FALSE, text |-> <<>>]
FileOf(text) == [exists |-> TRUE, text |-> text]

\* json.load(open(filename)): FileNotFoundError, JSONDecodeError or the value
load_json(file) ==
    IF ~file.exists THEN [exc |-> "FileNotFoundError", val |-> JNull]
    ELSE JsonLoads(file.text)

(***************************************************************************)
(* The HTTP API.  A response of requests.post is [transport, status, text]:*)
(* transport = TRUE when the request raised instead of answering.          *)
(***************************************************************************)
HttpError(status) == [transport |-> FALSE, status |-> status, text |-> <<>>]
HttpOk(text) == [transport |-> FALSE, status |-> 200, text |-> text]
TransportError == [transport |-> TRUE, status |-> 0, text |-> <<>>]

\* a chat completion whose choices[0].message.content is `c`
Completion(c) ==
    JObj(<<Member(Str("choices"),
                  JArr(<<JObj(<<Member(Str("message"),
                                      JObj(<<Member(Str("content"), c)>>))>>)>>))>>)

\* query_x_api: the parsed body, None, or the exception of requests.post
query_x_api(r) ==
    IF r.transport THEN [exc |-> "ConnectionError", val |-> JNull]
    ELSE IF r.status = 200
    THEN LET p == JsonLoads(r.text)
         IN IF p.exc = "none" THEN [exc |-> "none", val |-> p.val]
            ELSE [exc |-> "none", val |-> JNull]
    ELSE [exc |-> "none", val |-> JNull]

\* value[key] on a dict: KeyError when the key is missing, TypeError when
\* the value is no dict
Subscript(v, k) ==
    IF v.t # "obj" THEN [exc |-> "TypeError", val |-> JNull]
    ELSE IF ~Has(v, k) THEN [exc |-> "KeyError", val |-> JNull]
    ELSE [exc |-> "none", val |-> Get(v, k)]

\* response and "choices" in response and len(response["choices"]) > 0
\* (the bodies tried hold a list under "choices" whenever they hold the key)
HasChoices(response) ==
    /\ Truthy(response)
    /\ response.t = "obj"
    /\ Has(response, Str("choices"))
    /\ Get(response, Str("choices")).t = "arr"
    /\ Len(Get(response, Str("choices")).a) > 0

\* response["choices"][0]["message"]["content"].strip()
ChoiceContent(response) ==
    LET first == Get(response, Str("choices")).a[1]
        msg == Subscript(first, Str("message"))
        c == IF msg.exc = "none" THEN Subscript(msg.val, Str("content")) ELSE msg
    IN IF c.exc # "none" THEN [exc |-> c.exc, val |-> <<>>]
       ELSE IF c.val.t # "str" THEN [exc |-> "AttributeError", val |-> <<>>]
       ELSE [exc |-> "none", val |-> Strip(c.val.s)]

extract_content(response) ==
    IF HasChoices(response)
    THEN LET c == ChoiceContent(response)
         IN IF c.exc # "none" THEN Raised(c.exc) ELSE extract_value(c.val)
    ELSE Returned(Zero)

(***************************************************************************)
(* The collector, step 1: the catalog.                                     *)
(***************************************************************************)
KpiKey == Str("top_5_KPIs")
CarKey == Str("top_cars_US_2024")
LegacyCarKey == Str("top_bought_cars_US")
AverageKey == Str("Average")

\* the candidate pool of line 104, cut down to three of its nine names
all_kpis ==
    << Str("Fuel Efficiency (MPG)"), Str("Cost Over Ownership"),
       Str("Horsepower") >>
excluded_kpis ==
    { Str("Reliability Rating"), Str("Safety Rating"), Str("Resale Value") }
NotExcluded(k) == k \notin excluded_kpis
available_kpis == SelectSeq(all_kpis, NotExcluded)

\* random.sample(available_kpis, NumKpis): any NumKpis distinct entries of
\* the pool, in any order
KpiSamples ==
    { [i \in 1..NumKpis |-> available_kpis[f[i]]] :
        f \in { g \in [1..NumKpis -> 1..Len(available_kpis)] :
                  \A i, j \in 1..NumKpis : i # j => g[i] # g[j] } }

LoadFailed(e, msg) == [exc |-> e, msg |-> msg, kpis |-> <<>>, cars |-> <<>>]
Loaded(kpis, cars) == [exc |-> "none", msg |-> "", kpis |-> kpis, cars |-> cars]

\* a faulty variant of the load branch: the car count is not checked
try_load_catalog_any_count(file) ==
    LET l == load_json(file)
        data == l.val
    IN IF l.exc # "none" THEN LoadFailed(l.exc, "")
       ELSE IF ~Has(data, KpiKey) THEN LoadFailed("KeyError", "top_5_KPIs")
       ELSE IF Has(data, CarKey)
       THEN Loaded(StrItems(Get(data, KpiKey)), StrItems(Get(data, CarKey)))
       ELSE IF Has(data, LegacyCarKey)
       THEN Loaded(StrItems(Get(data, KpiKey)), StrItems(Get(data, LegacyCarKey)))
       ELSE LoadFailed("KeyError", "No valid car list key found")

\* lines 72-87: the lists of the catalog file, or the exception of the try
try_load_catalog(file) ==
    LET l == load_json(file)
        data == l.val
        cars == IF Has(data, CarKey) THEN StrItems(Get(data, CarKey))
                ELSE StrItems(Get(data, LegacyCarKey))
    IN IF l.exc # "none" THEN LoadFailed(l.exc, "")
       ELSE IF ~Has(data, KpiKey) THEN LoadFailed("KeyError", "top_5_KPIs")
       ELSE IF ~Has(data, CarKey) /\ ~Has(data, LegacyCarKey)
       THEN LoadFailed("KeyError", "No valid car list key found")
       ELSE IF Len(cars) # NumCars
       THEN LoadFailed("KeyError", "Need 20 cars (10 ICE + 10 EV)")
       ELSE Loaded(StrItems(Get(data, KpiKey)), cars)

\* str.split('\n')
RECURSIVE SplitLines(_)
SplitLines(s) ==
    LET nl == { i \in 1..Len(s) : s[i] = "\n" }
    IN IF nl = {} THEN <<s>>
       ELSE LET i == CHOOSE x \in nl : \A y \in nl : x <= y
            IN <<SubSeq(s, 1, i - 1)>> \o SplitLines(SubSeq(s, i + 1, Len(s)))

NonEmpty(line) == Strip(line) # <<>>

\* lines 94-95: the stripped, non-empty lines of the content
CleanLines(c) ==
    LET kept == SelectSeq(SplitLines(Strip(c)), NonEmpty)
    IN [i \in 1..Len(kept) |-> Strip(kept[i])]

\* a faulty variant of the fetch: the number of fetched cars is not checked
fetch_car_list_any_count(r) ==
    LET q == query_x_api(r)
        c == ChoiceContent(q.val)
    IN IF q.exc # "none" THEN [exc |-> q.exc, cars |-> <<>>]
       ELSE IF ~HasChoices(q.val) THEN [exc |-> "SystemExit", cars |-> <<>>]
       ELSE IF c.exc # "none" THEN [exc |-> c.exc, cars |-> <<>>]
       ELSE [exc |-> "none", cars |-> CleanLines(c.val)]

\* lines 92-101: the fetched car list, sys.exit(1), or an uncaught exception
fetch_car_list(r) ==
    LET q == query_x_api(r)
        c == ChoiceContent(q.val)
    IN IF q.exc # "none" THEN [exc |-> q.exc, cars |-> <<>>]
       ELSE IF ~HasChoices(q.val) THEN [exc |-> "SystemExit", cars |-> <<>>]
       ELSE IF c.exc # "none" THEN [exc |-> c.exc, cars |-> <<>>]
       ELSE IF Len(CleanLines(c.val)) # NumCars
       THEN [exc |-> "SystemExit", cars |-> <<>>]
       ELSE [exc |-> "none", cars |-> CleanLines(c.val)]

\* a faulty variant of the catalog write: the two lists change places
CatalogDataSwapped(cars, kpis) ==
    JObj(<<Member(CarKey, StrList(kpis)), Member(KpiKey, StrList(cars))>>)

\* line 114: data = {"top_cars_US_2024": car_list, "top_5_KPIs": kpi_list}
CatalogData(cars, kpis) ==
    JObj(<<Member(CarKey, StrList(cars)), Member(KpiKey, StrList(kpis))>>)

(***************************************************************************)
(* The collector, step 3: the averages.                                    *)
(***************************************************************************)
RECURSIVE SumNums(_)
SumNums(ns) ==
    IF ns = <<>> THEN [m |-> 0, d |-> 1]
    ELSE LET h == Head(ns)
             r == SumNums(Tail(ns))
             c == Canon(FALSE, h.m * r.d + r.m * h.d, h.d * r.d)
         IN [m |-> c.m, d |-> c.d]

AllInt(ns) == \A i \in 1..Len(ns) : ns[i].int

\* statistics.mean: the exact mean, an int when the data are ints and the
\* mean is whole, a float otherwise
Mean(ns) ==
    LET s == SumNums(ns)
        q == Canon(FALSE, s.m, s.d * Len(ns))
    IN IF AllInt(ns) /\ q.d = 1 THEN IntNum(q.m) ELSE FloatNum(q.m, q.d)

\* a faulty variant of the column: a cell holding 0 is taken for an absent one
ColumnValuesTruthy(d, cars, kpi) ==
    LET cells == [i \in 1..Len(cars) |-> Get(Get(d, cars[i]), kpi)]
        Present(v) == Truthy(v)
        kept == SelectSeq(cells, Present)
    IN [i \in 1..Len(kept) |-> kept[i].n]

\* line 137: [car_kpi_data[car][kpi] for car in car_list if ... is not None]
ColumnValues(d, cars, kpi) ==
    LET cells == [i \in 1..Len(cars) |-> Get(Get(d, cars[i]), kpi)]
        Present(v) == v.t # "null"
        kept == SelectSeq(cells, Present)
    IN [i \in 1..Len(kept) |-> kept[i].n]

\* lines 136-139, for the KPIs ks still to do
RECURSIVE AverageLoop(_, _, _)
AverageLoop(d, cars, ks) ==
    IF ks = <<>> THEN d
    ELSE LET kpi_values == ColumnValues(d, cars, Head(ks))
             avg_value == IF kpi_values # <<>> THEN Mean(kpi_values) ELSE Zero
             row == DictSet(Get(d, AverageKey), Head(ks), JNum(avg_value))
         IN AverageLoop(DictSet(d, AverageKey, row), cars, Tail(ks))

\* lines 135-139
with_averages(d, cars, kpis) ==
    AverageLoop(DictSet(d, AverageKey, JObj(<<>>)), cars, kpis)

(***************************************************************************)
(* What the collector meets: catalog and value-matrix files on disk, and   *)
(* the answers of the API.                                                 *)
(***************************************************************************)
CarNames ==
    << Str("Toyota Camry LE"), Str("Tesla Model 3 Long Range"),
       Str("Ford F-150 XLT"), Str("Honda CR-V EX"), Str("Chevrolet Bolt EV 2LT") >>
FirstCars(n) == SubSeq(CarNames, 1, n)
FirstKpis(n) == SubSeq(available_kpis, 1, n)

RECURSIVE JoinLines(_)
JoinLines(lines) ==
    IF lines = <<>> THEN <<>>
    ELSE IF Len(lines) = 1 THEN lines[1]
    ELSE lines[1] \o <<"\n">> \o JoinLines(Tail(lines))

Padded(cars) == [i \in 1..Len(cars) |-> <<" ">> \o cars[i] \o <<" ", "\n">>]
WithRepeat(cars) == [i \in 1..Len(cars) |-> IF i = 2 THEN cars[1] ELSE cars[i]]

CarListContents ==
    { JoinLines(FirstCars(NumCars)),
      JoinLines(Padded(FirstCars(NumCars))) \o <<"\n">>,
      JoinLines(WithRepeat(FirstCars(NumCars))),
      JoinLines(FirstCars(NumCars - 1)),
      JoinLines(FirstCars(NumCars + 1)),
      <<>> }

NotJson == <<LBrace>>
NoChoices == JObj(<<Member(Str("error"), JStr(Str("rate limited")))>>)
EmptyChoices == JObj(<<Member(Str("choices"), JArr(<<>>))>>)
ChoiceWithoutMessage == JObj(<<Member(Str("choices"), JArr(<<JObj(<<>>)>>))>>)

FailedResponses ==
    { TransportError, HttpError(500), HttpOk(NotJson), HttpOk(Dump(NoChoices)),
      HttpOk(Dump(EmptyChoices)), HttpOk(Dump(ChoiceWithoutMessage)),
      HttpOk(Dump(Completion(JNull))) }

CarListResponses ==
    FailedResponses \cup { HttpOk(Dump(Completion(JStr(c)))) : c \in CarListContents }

CellContents ==
    { <<"N", "/", "A">>, <<" ", "2", "5", "0", "0", "0", "\n">> }

CellResponses ==
    FailedResponses \cup { HttpOk(Dump(Completion(JStr(c)))) : c \in CellContents }

Truncated(text) == SubSeq(text, 1, Len(text) - 1)

CatalogFiles ==
    { FileOf(Truncated(Dump(CatalogData(FirstCars(NumCars), FirstKpis(NumKpis))))),
      FileOf(Dump(CatalogData(FirstCars(NumCars), FirstKpis(NumKpis)))),
      FileOf(Dump(CatalogData(FirstCars(NumCars - 1), FirstKpis(NumKpis)))),
      FileOf(Dump(CatalogData(FirstCars(NumCars + 1), FirstKpis(NumKpis)))),
      FileOf(Dump(CatalogData(FirstCars(NumCars), FirstKpis(NumKpis - 1)))),
      FileOf(Dump(JObj(<<Member(KpiKey, StrList(FirstKpis(NumKpis))),
                        Member(LegacyCarKey, StrList(FirstCars(NumCars)))>>))),
      FileOf(Dump(JObj(<<Member(KpiKey, StrList(FirstKpis(NumKpis))),
                        Member(CarKey, StrList(FirstCars(NumCars - 1))),
                        Member(LegacyCarKey, StrList(FirstCars(NumCars)))>>))),
      FileOf(Dump(JObj(<<Member(KpiKey, StrList(FirstKpis(NumKpis)))>>))),
      FileOf(Dump(JObj(<<Member(CarKey, StrList(FirstCars(NumCars)))>>))) }

OldValues ==
    JObj(<<Member(CarNames[1], JObj(<<Member(available_kpis[1], JNum(IntNum(30)))>>)),
           Member(AverageKey, JObj(<<Member(available_kpis[1], JNum(IntNum(30)))>>))>>)

\* a first run finds no file at all; later ones find the files of earlier
\* versions and runs
InitialFiles ==
    { <<NoFile, NoFile>> } \cup { <<f, FileOf(Dump(OldValues))>> : f \in CatalogFiles }

(***************************************************************************)
(* State.                                                                  *)
(*   collector: pc, exitCode, error, catFile, valFile, kpi_list, car_list, *)
(*     car_kpi_data, ci, ki (the cell queried next), calls (the API        *)
(*     requests made by this run), lastResp (the answer to the last one),  *)
(*     rerun (FALSE in the first run followed, TRUE in the run after it),  *)
(*     branch (how this run got its catalog), loadExc (the `e` of          *)
(*     line 88, alive in the except block only), catWrites and valWrites   *)
(*     (file writes of this run), written (the lists of the last catalog   *)
(*     write)                                                              *)
(*   extract_value on its own: content, result, xpc                        *)
(*   exporter: epc, ret (what main returned, -1 before it returns), raised *)
(*     (the exception main let through), elog (what main logged), xlsx     *)
(*     (the report file)                                                   *)
(*   dashboard: dpc, dashCars, dashKpis and dashValues (the `cars`, `kpis` *)
(*     and `values_data` of main), selected_kpi (the sidebar choice),      *)
(*     tiles, bars, best and worst (what the page shows so far), dashExc   *)
(*     (the exception that ended the script run)                           *)
(***************************************************************************)
VARIABLES pc, exitCode, error, catFile, valFile, kpi_list, car_list,
          car_kpi_data, ci, ki, calls, lastResp, rerun, branch, loadExc,
          catWrites, valWrites, written, content, result, xpc,
          epc, ret, raised, elog, xlsx,
          dpc, dashCars, dashKpis, dashValues, selected_kpi, tiles, bars,
          best, worst, dashExc

colVars == <<pc, exitCode, error, catFile, valFile, kpi_list, car_list,
             car_kpi_data, ci, ki, calls, lastResp, rerun, branch, loadExc,
             catWrites, valWrites, written>>
extVars == <<content, result, xpc>>
expVars == <<epc, ret, raised, elog, xlsx>>
dashVars == <<dpc, dashCars, dashKpis, dashValues, selected_kpi, tiles, bars,
              best, worst, dashExc>>
vars == <<colVars, extVars, expVars, dashVars>>

NoError == [exc |-> "none", at |-> "none"]
NoLoadExc == [exc |-> "none", msg |-> ""]
NoResponse == HttpError(0)
NothingWritten == [valid |-> FALSE, kpis |-> <<>>, cars |-> <<>>]
CarsCall == [kind |-> "cars", car |-> <<>>, kpi |-> <<>>]
CellCall(car, kpi) == [kind |-> "cell", car |-> car, kpi |-> kpi]

\* the interpreter's state when the script starts
FreshProcess ==
    /\ pc = "load"
    /\ exitCode = -1
    /\ error = NoError
    /\ kpi_list = <<>>
    /\ car_list = <<>>
    /\ car_kpi_data = JObj(<<>>)
    /\ ci = 1
    /\ ki = 1
    /\ calls = <<>>
    /\ lastResp = NoResponse
    /\ branch = "none"
    /\ loadExc = NoLoadExc
    /\ catWrites = 0
    /\ valWrites = 0

ExtIdle ==
    /\ content = <<>>
    /\ result = Returned(Zero)
    /\ xpc = "idle"

NoReport ==
    [exists |-> FALSE, formatted |-> FALSE, rows |-> <<>>, charts |-> <<>>,
     minis |-> <<>>]

ExpIdle ==
    /\ epc = "idle"
    /\ ret = -1
    /\ raised = "none"
    /\ elog = <<>>
    /\ xlsx = NoReport

DashIdle ==
    /\ dpc = "idle"
    /\ dashCars = <<>>
    /\ dashKpis = <<>>
    /\ dashValues = JObj(<<>>)
    /\ selected_kpi = <<>>
    /\ tiles = <<>>
    /\ bars = <<>>
    /\ best = <<>>
    /\ worst = <<>>
    /\ dashExc = "none"

Init ==
    /\ FreshProcess
    /\ \E fs \in InitialFiles : catFile = fs[1] /\ valFile = fs[2]
    /\ rerun = FALSE
    /\ written = NothingWritten
    /\ ExtIdle
    /\ ExpIdle
    /\ DashIdle

\* the process ends by sys.exit(1) or an uncaught exception: exit code 1,
\* its memory is gone
Terminate(exc, at) ==
    /\ pc' = IF exc = "SystemExit" THEN "exited" ELSE "crashed"
    /\ exitCode' = 1
    /\ error' = [exc |-> exc, at |-> at]
    /\ kpi_list' = <<>>
    /\ car_list' = <<>>
    /\ car_kpi_data' = JObj(<<>>)
    /\ ci' = 1
    /\ ki' = 1

\* lines 70-89: the try block and the choice of the except branch
LoadCatalog ==
    /\ pc = "load"
    /\ LET l == try_load_catalog(catFile)
       IN IF l.exc = "none"
          THEN /\ kpi_list' = l.kpis
               /\ car_list' = l.cars
               /\ pc' = "cells"
               /\ branch' = "load"
               /\ loadExc' = NoLoadExc
          ELSE /\ pc' = "fetch"
               /\ branch' = "regen"
               /\ loadExc' = [exc |-> l.exc, msg |-> l.msg]
               /\ UNCHANGED <<kpi_list, car_list>>
    /\ UNCHANGED <<exitCode, error, catFile, valFile, car_kpi_data, ci, ki,
                   calls, lastResp, rerun, catWrites, valWrites, written,
                   extVars, expVars, dashVars>>

\* lines 90-118: the except branch
FetchCatalog ==
    /\ pc = "fetch"
    /\ \E r \in CarListResponses, sample \in KpiSamples :
         LET f == fetch_car_list(r)
         IN /\ calls' = Append(calls, CarsCall)
            /\ lastResp' = r
            /\ loadExc' = NoLoadExc
            /\ IF f.exc = "none"
               THEN /\ car_list' = f.cars
                    /\ kpi_list' = sample
                    /\ catFile' = FileOf(Dump(CatalogData(f.cars, sample)))
                    /\ catWrites' = catWrites + 1
                    /\ written' = [valid |-> TRUE, kpis |-> sample, cars |-> f.cars]
                    /\ pc' = "cells"
                    /\ UNCHANGED <<exitCode, error, car_kpi_data, ci, ki>>
               ELSE /\ Terminate(f.exc, "fetch")
                    /\ UNCHANGED <<catFile, catWrites, written>>
    /\ UNCHANGED <<valFile, rerun, branch, valWrites, extVars, expVars, dashVars>>

\* a faulty variant of the per-cell query: a request that brought no body is
\* made again
QueryCellRetrying ==
    /\ pc = "cells"
    /\ \E r \in CellResponses :
         LET car == car_list[ci]
             kpi == kpi_list[ki]
             d0 == IF ki = 1 THEN DictSet(car_kpi_data, car, JObj(<<>>))
                   ELSE car_kpi_data
             q == query_x_api(r)
             value == IF q.exc # "none" THEN Raised(q.exc)
                      ELSE extract_content(q.val)
             last == ci = Len(car_list) /\ ki = Len(kpi_list)
         IN /\ calls' = Append(calls, CellCall(car, kpi))
            /\ lastResp' = r
            /\ IF q.exc = "none" /\ q.val = JNull
               THEN UNCHANGED <<pc, exitCode, error, kpi_list, car_list,
                                car_kpi_data, ci, ki>>
               ELSE IF value.exc = "none"
               THEN /\ car_kpi_data' =
                         DictSet(d0, car, DictSet(Get(d0, car), kpi, JNum(value.val)))
                    /\ ki' = IF ki < Len(kpi_list) THEN ki + 1 ELSE 1
                    /\ ci' = IF ki < Len(kpi_list) THEN ci ELSE ci + 1
                    /\ pc' = IF last THEN "average" ELSE "cells"
                    /\ UNCHANGED <<exitCode, error, kpi_list, car_list>>
               ELSE Terminate(value.exc, "cells")
    /\ UNCHANGED <<catFile, valFile, rerun, branch, loadExc, catWrites,
                   valWrites, written, extVars, expVars, dashVars>>

\* lines 122-132, one turn of the inner loop: the query of cell (ci, ki)
QueryCell ==
    /\ pc = "cells"
    /\ \E r \in CellResponses :
         LET car == car_list[ci]
             kpi == kpi_list[ki]
             d0 == IF ki = 1 THEN DictSet(car_kpi_data, car, JObj(<<>>))
                   ELSE car_kpi_data
             q == query_x_api(r)
             value == IF q.exc # "none" THEN Raised(q.exc)
                      ELSE extract_content(q.val)
             last == ci = Len(car_list) /\ ki = Len(kpi_list)
         IN /\ calls' = Append(calls, CellCall(car, kpi))
            /\ lastResp' = r
            /\ IF value.exc = "none"
               THEN /\ car_kpi_data' =
                         DictSet(d0, car, DictSet(Get(d0, car), kpi, JNum(value.val)))
                    /\ ki' = IF ki < Len(kpi_list) THEN ki + 1 ELSE 1
                    /\ ci' = IF ki < Len(kpi_list) THEN ci ELSE ci + 1
                    /\ pc' = IF last THEN "average" ELSE "cells"
                    /\ UNCHANGED <<exitCode, error, kpi_list, car_list>>
               ELSE Terminate(value.exc, "cells")
    /\ UNCHANGED <<catFile, valFile, rerun, branch, loadExc, catWrites,
                   valWrites, written, extVars, expVars, dashVars>>

\* lines 135-140
ComputeAverages ==
    /\ pc = "average"
    /\ car_kpi_data' = with_averages(car_kpi_data, car_list, kpi_list)
    /\ pc' = "save"
    /\ UNCHANGED <<exitCode, error, catFile, valFile, kpi_list, car_list, ci,
                   ki, calls, lastResp, rerun, branch, loadExc, catWrites,
                   valWrites, written, extVars, expVars, dashVars>>

\* a faulty variant of the save: the matrix is also written after each car
SaveValuesEachCar ==
    \/ /\ pc = "cells"
       /\ ci > 1
       /\ ki = 1
       /\ valFile' = FileOf(Dump(car_kpi_data))
       /\ UNCHANGED <<pc, exitCode, error, catFile, kpi_list, car_list,
                      car_kpi_data, ci, ki, calls, lastResp, rerun, branch,
                      loadExc, catWrites, valWrites, written, extVars, expVars,
                      dashVars>>
    \/ /\ pc = "save"
       /\ \/ /\ valFile' = FileOf(Dump(car_kpi_data))
             /\ valWrites' = valWrites + 1
          \/ UNCHANGED <<valFile, valWrites>>
       /\ pc' = "done"
       /\ exitCode' = 0
       /\ UNCHANGED <<error, catFile, kpi_list, car_list, car_kpi_data, ci, ki,
                      calls, lastResp, rerun, branch, loadExc, catWrites, written,
                      extVars, expVars, dashVars>>

\* lines 143-149: the write, or the exception the except of line 148 prints
SaveValues ==
    /\ pc = "save"
    /\ \/ /\ valFile' = FileOf(Dump(car_kpi_data))
          /\ valWrites' = valWrites + 1
       \/ UNCHANGED <<valFile, valWrites>>
    /\ pc' = "done"
    /\ exitCode' = 0
    /\ UNCHANGED <<error, catFile, kpi_list, car_list, car_kpi_data, ci, ki,
                   calls, lastResp, rerun, branch, loadExc, catWrites, written,
                   extVars, expVars, dashVars>>

\* the script is started again on the files the last run left.  One re-run
\* is followed, after a run that ended without writing the value matrix.
Restart ==
    /\ pc \in {"exited", "crashed", "done"}
    /\ valWrites = 0
    /\ ~rerun
    /\ rerun' = TRUE
    /\ pc' = "load"
    /\ exitCode' = -1
    /\ error' = NoError
    /\ kpi_list' = <<>>
    /\ car_list' = <<>>
    /\ car_kpi_data' = JObj(<<>>)
    /\ ci' = 1
    /\ ki' = 1
    /\ calls' = <<>>
    /\ lastResp' = NoResponse
    /\ branch' = "none"
    /\ loadExc' = NoLoadExc
    /\ catWrites' = 0
    /\ valWrites' = 0
    /\ UNCHANGED <<catFile, valFile, written, extVars, expVars, dashVars>>

Next ==
    \/ LoadCatalog
    \/ FetchCatalog
    \/ QueryCell
    \/ ComputeAverages
    \/ SaveValues
    \/ Restart

Spec == Init /\ [][Next]_vars

(***************************************************************************)
(* extract_value on its own, on every content string of Contents.          *)
(***************************************************************************)
ColIdle ==
    /\ FreshProcess
    /\ rerun = FALSE
    /\ written = NothingWritten

ExtInit ==
    /\ ColIdle
    /\ ExpIdle
    /\ DashIdle
    /\ catFile = NoFile
    /\ valFile = NoFile
    /\ content \in Contents
    /\ result = Returned(Zero)
    /\ xpc = "call"

ExtractValue ==
    /\ xpc = "call"
    /\ result' = extract_value(content)
    /\ xpc' = "done"
    /\ UNCHANGED <<content, colVars, expVars, dashVars>>

SpecExtract == ExtInit /\ [][ExtractValue]_vars

(***************************************************************************)
(* The exporter (toExcel.py): main, from the two JSON files to the report. *)
(***************************************************************************)
\* load_json_file: the parsed file, or None on any exception
load_json_file(file) ==
    LET l == load_json(file) IN IF l.exc = "none" THEN l.val ELSE JNull

\* a faulty variant of validate_json_data: a car without data is only warned of
validate_json_data_lenient(kpi_data, values_data) ==
    /\ Has(kpi_data, KpiKey) /\ Has(kpi_data, CarKey)
    /\ Get(kpi_data, KpiKey).t = "arr" /\ Truthy(Get(kpi_data, KpiKey))
    /\ Get(kpi_data, CarKey).t = "arr" /\ Truthy(Get(kpi_data, CarKey))

\* validate_json_data: missing keys, empty or non-list lists and a car
\* without data fail; a KPI missing in a car's entry is only warned of
validate_json_data(kpi_data, values_data) ==
    /\ Has(kpi_data, KpiKey) /\ Has(kpi_data, CarKey)
    /\ Get(kpi_data, KpiKey).t = "arr" /\ Truthy(Get(kpi_data, KpiKey))
    /\ Get(kpi_data, CarKey).t = "arr" /\ Truthy(Get(kpi_data, CarKey))
    /\ \A i \in 1..Len(Get(kpi_data, CarKey).a) :
         Has(values_data, Get(kpi_data, CarKey).a[i].s)

\* the warnings of lines 104-106, given for the cars that have an entry
MissingKpis(kpi_data, values_data) ==
    { <<i, j>> \in (1..Len(Get(kpi_data, CarKey).a)) \X (1..Len(Get(kpi_data, KpiKey).a)) :
        /\ Has(values_data, Get(kpi_data, CarKey).a[i].s)
        /\ ~Has(Get(values_data, Get(kpi_data, CarKey).a[i].s),
                Get(kpi_data, KpiKey).a[j].s) }

\* values[car].get(kpi, 0)
GetOrZero(values, car, kpi) ==
    IF Has(Get(values, car), kpi) THEN Get(Get(values, car), kpi).n ELSE Zero

\* round(avg, 2), ties to the even hundredth
Round2(q) ==
    LET f == (q.m * 100) \div q.d
        r == (q.m * 100) % q.d
        up == 2 * r > q.d \/ (2 * r = q.d /\ f % 2 = 1)
    IN FloatNum(IF up THEN f + 1 ELSE f, 100)

\* calculate_averages, for one KPI
RoundedAverage(cars, kpi, values) ==
    LET kpi_values == [i \in 1..Len(cars) |-> GetOrZero(values, cars[i], kpi)]
        s == SumNums(kpi_values)
    IN IF kpi_values # <<>>
       THEN Round2([m |-> s.m, d |-> s.d * Len(cars)])
       ELSE Zero

\* create_dataframe: the header, one row per car and the "Average" row
create_dataframe(cars, kpis, values) ==
    << <<JStr(Str("Car"))>> \o [j \in 1..Len(kpis) |-> JStr(kpis[j])] >>
    \o [i \in 1..Len(cars) |->
          <<JStr(cars[i])>> \o [j \in 1..Len(kpis) |-> JNum(GetOrZero(values, cars[i], kpis[j]))]]
    \o << <<JStr(AverageKey)>>
          \o [j \in 1..Len(kpis) |-> JNum(RoundedAverage(cars, kpis[j], values))] >>

\* lines 408-419: both loads, the check that both brought data, validation
ExpLoadValidate ==
    /\ epc = "start"
    /\ LET car_kpi_data_ == load_json_file(catFile)
           car_kpi_values == load_json_file(valFile)
       IN IF ~Truthy(car_kpi_data_) \/ ~Truthy(car_kpi_values)
          THEN /\ elog' = Append(elog, "Cannot proceed without both JSON files.")
               /\ ret' = 1
               /\ epc' = "done"
          ELSE IF ~validate_json_data(car_kpi_data_, car_kpi_values)
          THEN /\ elog' = Append(elog, "JSON data validation failed.")
               /\ ret' = 1
               /\ epc' = "done"
          ELSE /\ elog' = elog \o
                    (IF MissingKpis(car_kpi_data_, car_kpi_values) # {}
                     THEN <<"Missing KPI. Will use default value of 0.">> ELSE <<>>)
                    \o <<"JSON data validation passed">>
               /\ ret' = ret
               /\ epc' = "validated"
    /\ UNCHANGED <<raised, xlsx, colVars, extVars, dashVars>>

\* lines 421-435: the table, and save_to_excel, which succeeds or fails
ExpSave ==
    /\ epc = "validated"
    /\ LET kpi_data == load_json_file(catFile)
           values == load_json_file(valFile)
           kpis == StrItems(Get(kpi_data, KpiKey))
           cars == StrItems(Get(kpi_data, CarKey))
       IN IF \E i \in 1..Len(cars) : ~Has(values, cars[i])
          THEN /\ raised' = "KeyError"
               /\ epc' = "done"
               /\ UNCHANGED <<ret, elog, xlsx>>
          ELSE \E ok \in BOOLEAN :
                 IF ok
                 THEN /\ xlsx' = [exists |-> TRUE, formatted |-> FALSE,
                                  rows |-> create_dataframe(cars, kpis, values),
                                  charts |-> <<>>, minis |-> <<>>]
                      /\ elog' = Append(elog, "Saved data to Excel file")
                      /\ epc' = "saved"
                      /\ UNCHANGED <<ret, raised>>
                 ELSE /\ elog' = Append(elog, "Failed to save Excel file. Exiting.")
                      /\ ret' = 1
                      /\ epc' = "done"
                      /\ UNCHANGED <<raised, xlsx>>
    /\ UNCHANGED <<colVars, extVars, dashVars>>

\* Reference(ws_data, min_col, min_row, max_row): a range of one column
Reference(min_col, min_row, max_row) ==
    [min_col |-> min_col, min_row |-> min_row, max_row |-> max_row]

\* a faulty variant of create_excel_charts: the ranges start at the header row
create_excel_charts_from_header(rows, kpis, include_average) ==
    LET max_row == IF include_average THEN Len(rows) ELSE Len(rows) - 1
    IN [j \in 1..Len(kpis) |->
          [kpi |-> kpis[j],
           categories |-> Reference(1, 1, max_row),
           values |-> Reference(j + 1, 1, max_row)]]

\* create_excel_charts, lines 257-299: one bar chart per KPI, the KPI of
\* position j (enumerate from 2) charting column j + 1 of the data sheet.
\* The KPI names tried give distinct sheet names, so no sheet is replaced.
create_excel_charts(rows, kpis, include_average) ==
    LET max_row == IF include_average THEN Len(rows) ELSE Len(rows) - 1
    IN [j \in 1..Len(kpis) |->
          [kpi |-> kpis[j],
           categories |-> Reference(1, 2, max_row),
           values |-> Reference(j + 1, 2, max_row)]]

\* lines 354-358: the first column whose header is the KPI (0 for None)
KpiCol(rows, kpi) ==
    LET found == { c \in 1..Len(rows[1]) : rows[1][c] = JStr(kpi) }
    IN IF found = {} THEN 0 ELSE CHOOSE c \in found : \A e \in found : c <= e

\* create_dashboard, lines 335-375: the miniature charts, one per KPI whose
\* column is found
create_dashboard(rows, kpis) ==
    LET max_row == Len(rows) - 1
        HasCol(kpi) == KpiCol(rows, kpi) # 0
        shown == SelectSeq(kpis, HasCol)
    IN [j \in 1..Len(shown) |->
          [kpi |-> shown[j],
           categories |-> Reference(1, 2, max_row),
           values |-> Reference(KpiCol(rows, shown[j]), 2, max_row)]]

\* lines 437-457: formatting and charts, which succeed or raise; main calls
\* create_excel_charts(wb, kpi_list), include_average left at its default
ExpFormat ==
    /\ epc = "saved"
    /\ \E ok \in BOOLEAN :
         IF ok
         THEN /\ LET kpi_list_ == StrItems(Get(load_json_file(catFile), KpiKey))
                 IN xlsx' = [xlsx EXCEPT
                               !.formatted = TRUE,
                               !.charts = create_excel_charts(xlsx.rows, kpi_list_, TRUE),
                               !.minis = create_dashboard(xlsx.rows, kpi_list_)]
              /\ elog' = Append(elog, "Successfully created and formatted Excel report")
              /\ ret' = 0
         ELSE /\ elog' = Append(elog, "Error during Excel formatting and chart creation")
              /\ ret' = 1
              /\ UNCHANGED xlsx
    /\ epc' = "done"
    /\ UNCHANGED <<raised, colVars, extVars, dashVars>>

\* the files the exporter is tried on
MatrixOf(cars, kpis) ==
    JObj([i \in 1..Len(cars) |->
            Member(cars[i], JObj([j \in 1..Len(kpis) |->
                                    Member(kpis[j], JNum(IntNum(10 * i + j)))]))])

ExpCatalogFiles ==
    CatalogFiles \cup
    { NoFile,
      FileOf(Dump(JObj(<<>>))),
      FileOf(Dump(CatalogData(FirstCars(NumCars), <<>>))),
      FileOf(Dump(CatalogData(<<>>, FirstKpis(NumKpis)))),
      FileOf(Dump(JObj(<<Member(CarKey, StrList(FirstCars(NumCars))),
                        Member(KpiKey, JStr(available_kpis[1]))>>))) }

ExpValueFiles ==
    { NoFile,
      FileOf(NotJson),
      FileOf(Dump(JObj(<<>>))),
      FileOf(Dump(MatrixOf(FirstCars(NumCars + 1), FirstKpis(NumKpis)))),
      FileOf(Dump(MatrixOf(FirstCars(NumCars - 1), FirstKpis(NumKpis)))),
      FileOf(Dump(MatrixOf(FirstCars(NumCars), FirstKpis(NumKpis - 1)))) }

OldReport ==
    [exists |-> TRUE, formatted |-> TRUE, rows |-> <<>>, charts |-> <<>>,
     minis |-> <<>>]

ExpInit ==
    /\ ColIdle
    /\ ExtIdle
    /\ DashIdle
    /\ catFile \in ExpCatalogFiles
    /\ valFile \in ExpValueFiles
    /\ epc = "start"
    /\ ret = -1
    /\ raised = "none"
    /\ elog = <<>>
    /\ xlsx \in {NoReport, OldReport}

ExpNext == ExpLoadValidate \/ ExpSave \/ ExpFormat

SpecExport == ExpInit /\ [][ExpNext]_vars

(***************************************************************************)
(* The dashboard (streamlit_dashboard.py): one run of the script, from the *)
(* two JSON files to the call-outs.  The historical file is absent, which  *)
(* load_data tolerates and which leaves create_trend_analysis idle.        *)
(***************************************************************************)
\* the 3 of kpis[:3], lines 164 and 170
TopCount == 3

\* a < b on numbers
NumLess(a, b) == a.m * b.d < b.m * a.d

\* load_data, lines 48-61: both values, or ({}, {}) on any exception
load_data(cat, val) ==
    LET k == load_json(cat)
        v == load_json(val)
    IN IF k.exc = "none" /\ v.exc = "none"
       THEN [kpi_data |-> k.val, values_data |-> v.val]
       ELSE [kpi_data |-> JObj(<<>>), values_data |-> JObj(<<>>)]

\* dict.get(key, []) on the catalog
GetOrEmpty(d, k) == IF Has(d, k) THEN StrItems(Get(d, k)) ELSE <<>>

\* f"{x:.1f}": x to one decimal, ties to the even tenth
Round1(q) ==
    LET f == (q.m * 10) \div q.d
        r == (q.m * 10) % q.d
        up == 2 * r > q.d \/ (2 * r = q.d /\ f % 2 = 1)
    IN FloatNum(IF up THEN f + 1 ELSE f, 10)

\* max(values) of a non-empty list of numbers
MaxNum(ns) ==
    ns[CHOOSE i \in 1..Len(ns) : \A j \in 1..Len(ns) : ~NumLess(ns[i], ns[j])]

\* line 70: [values_data[car][kpi] for car in cars if kpi in values_data[car]]
PresentValues(values, cars_, kpi) ==
    LET HasKpi(car) == Has(Get(values, car), kpi)
        kept == SelectSeq(cars_, HasKpi)
    IN [i \in 1..Len(kept) |-> Get(Get(values, kept[i]), kpi).n]

\* create_performance_metrics, lines 63-77, for a matrix that holds every
\* car: one tile per KPI that has values
MetricTile(values, cars_, kpi) ==
    LET vs == PresentValues(values, cars_, kpi)
        total == SumNums(vs)
        avg_value == [m |-> total.m, d |-> total.d * Len(vs)]
        top == MaxNum(vs)
        delta == Canon(FALSE, top.m * avg_value.d - avg_value.m * top.d,
                       top.d * avg_value.d)
    IN [label |-> kpi, value |-> Round1(avg_value), delta |-> Round1(delta)]

create_performance_metrics(values, cars_, kpis_) ==
    LET Shown(kpi) == PresentValues(values, cars_, kpi) # <<>>
        shown == SelectSeq(kpis_, Shown)
    IN [j \in 1..Len(shown) |-> MetricTile(values, cars_, shown[j])]

\* create_comparison_chart, lines 83-87: the rows of the bar chart
create_comparison_chart(values, cars_, kpi) ==
    LET HasKpi(car) == Has(Get(values, car), kpi)
        kept == SelectSeq(cars_, HasKpi)
    IN [i \in 1..Len(kept) |->
          [Car |-> kept[i], Value |-> Get(Get(values, kept[i]), kpi).n]]

\* the key of lines 165 and 171: values_data[x].get(kpi, 0)
CallOutKey(values, x, kpi) ==
    IF Has(Get(values, x), kpi) THEN Get(Get(values, x), kpi).n ELSE Zero

\* max(cars, key=...): the first car whose key no other exceeds
MaxCar(values, cars_, kpi) ==
    cars_[CHOOSE i \in 1..Len(cars_) :
            /\ \A j \in 1..Len(cars_) :
                 ~NumLess(CallOutKey(values, cars_[i], kpi), CallOutKey(values, cars_[j], kpi))
            /\ \A j \in 1..(i - 1) :
                 NumLess(CallOutKey(values, cars_[j], kpi), CallOutKey(values, cars_[i], kpi))]

\* min(cars, key=...): the first car whose key is below no other
MinCar(values, cars_, kpi) ==
    cars_[CHOOSE i \in 1..Len(cars_) :
            /\ \A j \in 1..Len(cars_) :
                 ~NumLess(CallOutKey(values, cars_[j], kpi), CallOutKey(values, cars_[i], kpi))
            /\ \A j \in 1..(i - 1) :
                 NumLess(CallOutKey(values, cars_[i], kpi), CallOutKey(values, cars_[j], kpi))]

\* the line of one call-out: f"- **{kpi}**: {car} ({values_data[car][kpi]})",
\* ValueError of max/min on no car, KeyError of the subscript
CallOutLine(values, cars_, kpi, top) ==
    IF cars_ = <<>> THEN [exc |-> "ValueError", kpi |-> kpi, car |-> <<>>, value |-> Zero]
    ELSE LET car == IF top THEN MaxCar(values, cars_, kpi) ELSE MinCar(values, cars_, kpi)
             v == Subscript(Get(values, car), kpi)
         IN [exc |-> v.exc, kpi |-> kpi, car |-> car, value |-> v.val.n]

\* lines 164-166 (top) and 170-172 (bottom), for the KPIs ks still to do:
\* the lines shown, and the exception that ended the loop
RECURSIVE CallOutLoop(_, _, _, _, _)
CallOutLoop(values, cars_, ks, top, shown) ==
    IF ks = <<>> THEN [exc |-> "none", shown |-> shown]
    ELSE LET c == CallOutLine(values, cars_, Head(ks), top)
         IN IF c.exc # "none" THEN [exc |-> c.exc, shown |-> shown]
            ELSE CallOutLoop(values, cars_, Tail(ks), top,
                             Append(shown, [kpi |-> c.kpi, car |-> c.car, value |-> c.value]))

\* kpis[:3]
FirstThree(kpis_) == SubSeq(kpis_, 1, IF Len(kpis_) < TopCount THEN Len(kpis_) ELSE TopCount)

\* lines 132-147: load_data, the check that both files brought data, the
\* lists of the catalog and the choice made in the sidebar
DashLoad ==
    /\ dpc = "start"
    /\ LET l == load_data(catFile, valFile)
       IN IF ~Truthy(l.kpi_data) \/ ~Truthy(l.values_data)
          THEN /\ dpc' = "failed"
               /\ UNCHANGED <<dashCars, dashKpis, dashValues, selected_kpi>>
          ELSE /\ dashCars' = GetOrEmpty(l.kpi_data, CarKey)
               /\ dashKpis' = GetOrEmpty(l.kpi_data, KpiKey)
               /\ dashValues' = l.values_data
               /\ \E k \in 1..Len(GetOrEmpty(l.kpi_data, KpiKey)) :
                    selected_kpi' = GetOrEmpty(l.kpi_data, KpiKey)[k]
               /\ dpc' = "render"
    /\ UNCHANGED <<tiles, bars, best, worst, dashExc, colVars, extVars, expVars>>

\* lines 154-156: the tiles and the comparison chart; values_data[car] raises
\* KeyError for a car the matrix does not hold
DashRender ==
    /\ dpc = "render"
    /\ IF \E i \in 1..Len(dashCars) : ~Has(dashValues, dashCars[i])
       THEN /\ dashExc' = "KeyError"
            /\ dpc' = "crashed"
            /\ UNCHANGED <<tiles, bars>>
       ELSE /\ tiles' = create_performance_metrics(dashValues, dashCars, dashKpis)
            /\ bars' = create_comparison_chart(dashValues, dashCars, selected_kpi)
            /\ dpc' = "best"
            /\ UNCHANGED dashExc
    /\ UNCHANGED <<dashCars, dashKpis, dashValues, selected_kpi, best, worst,
                   colVars, extVars, expVars>>

\* lines 162-166: the "Top Performers" column
DashTopPerformers ==
    /\ dpc = "best"
    /\ LET r == CallOutLoop(dashValues, dashCars, FirstThree(dashKpis), TRUE, <<>>)
       IN /\ best' = r.shown
          /\ dashExc' = r.exc
          /\ dpc' = IF r.exc = "none" THEN "worst" ELSE "crashed"
    /\ UNCHANGED <<dashCars, dashKpis, dashValues, selected_kpi, tiles, bars,
                   worst, colVars, extVars, expVars>>

\* lines 168-172: the "Areas for Improvement" column
DashImprovements ==
    /\ dpc = "worst"
    /\ LET r == CallOutLoop(dashValues, dashCars, FirstThree(dashKpis), FALSE, <<>>)
       IN /\ worst' = r.shown
          /\ dashExc' = r.exc
          /\ dpc' = IF r.exc = "none" THEN "done" ELSE "crashed"
    /\ UNCHANGED <<dashCars, dashKpis, dashValues, selected_kpi, tiles, bars,
                   best, colVars, extVars, expVars>>

\* the files the dashboard is tried on: catalogs with 1, TopCount and
\* TopCount + 1 KPIs, and matrices over those KPIs with no gap, one cell
\* missing, or one KPI missing in every car
dash_kpis == available_kpis \o <<Str("Range (miles)")>>
DashKpiCounts == {1, TopCount, TopCount + 1}

DashCatalogFiles ==
    { FileOf(Dump(CatalogData(FirstCars(NumCars), SubSeq(dash_kpis, 1, n)))) :
        n \in DashKpiCounts }
    \cup { NoFile,
           FileOf(Dump(JObj(<<Member(KpiKey, StrList(dash_kpis)),
                             Member(LegacyCarKey, StrList(FirstCars(NumCars)))>>))) }

DashPatterns == {"zero", "up", "down", "half"}
DashCells == (1..NumCars) \X (1..Len(dash_kpis))
DashGaps ==
    { {} } \cup { {c} : c \in DashCells }
    \cup { { c \in DashCells : c[2] = j } : j \in 1..Len(dash_kpis) }

DashValue(pat, i, j) ==
    CASE pat = "zero" -> Zero
      [] pat = "up" -> IntNum(10 * i + j)
      [] pat = "down" -> IntNum(10 * (NumCars + 1 - i) + j)
      [] pat = "half" -> FloatNum(5 * (i % 2) + 2 * j + 1, 2)

DashMatrix(cars_, pat, gaps) ==
    JObj([i \in 1..Len(cars_) |->
            Member(cars_[i],
                   LET Kept(j) == <<i, j>> \notin gaps
                       js == SelectSeq([j \in 1..Len(dash_kpis) |-> j], Kept)
                   IN JObj([x \in 1..Len(js) |->
                              Member(dash_kpis[js[x]], JNum(DashValue(pat, i, js[x])))]))])

DashValueFiles ==
    { FileOf(Dump(DashMatrix(FirstCars(NumCars), pat, gaps))) :
        pat \in DashPatterns, gaps \in DashGaps }
    \cup { NoFile, FileOf(NotJson),
           FileOf(Dump(DashMatrix(FirstCars(NumCars - 1), "up", {}))) }

DashInit ==
    /\ ColIdle
    /\ ExtIdle
    /\ ExpIdle
    /\ catFile \in DashCatalogFiles
    /\ valFile \in DashValueFiles
    /\ dpc = "start"
    /\ dashCars = <<>>
    /\ dashKpis = <<>>
    /\ dashValues = JObj(<<>>)
    /\ selected_kpi = <<>>
    /\ tiles = <<>>
    /\ bars = <<>>
    /\ best = <<>>
    /\ worst = <<>>
    /\ dashExc = "none"

DashNext == DashLoad \/ DashRender \/ DashTopPerformers \/ DashImprovements

SpecDash == DashInit /\ [][DashNext]_vars

(***************************************************************************)
(* Properties.                                                             *)
(***************************************************************************)
Live == pc \in {"cells", "average", "save", "done"}

\* the numeric value of a content string: what is left of it after dropping
\* every character but digits and the decimal point, read as a decimal
NumericValue(c) == ParseFloat(NumericStr(c))

\* the answer is a completion whose content is c
IsCompletion(r, c) == r = HttpOk(Dump(Completion(JStr(c))))

\* the cell of car and kpi in the matrix d
Cell(d, car, kpi) == Get(Get(d, car), kpi)

\* C1: in the per-cell loop, whenever the API call fails or answers with a
\* malformed response (transport error, non-200 status, body that is not
\* JSON, JSON without a usable choices[0].message.content string), the cell
\* is set to 0 by exactly one request and the run goes on to the next cell.
C1_FailedCellYieldsZero ==
    [][ (pc = "cells" /\ lastResp' \in FailedResponses)
          => /\ pc' \in {"cells", "average"}
             /\ calls' = Append(calls, CellCall(car_list[ci], kpi_list[ki]))
             /\ Cell(car_kpi_data', car_list[ci], kpi_list[ki]) = JNum(Zero) ]_vars

\* C5: a content string whose numeric value exceeds 1000 yields that value
\* divided by 1000, once: an int when the quotient is whole, a float
\* otherwise.
C5_AboveThresholdDividedBy1000 ==
    LET v == NumericValue(content)
    IN (xpc = "done" /\ v.ok /\ v.m > 1000 * v.d)
         => /\ result.exc = "none"
            /\ result.val.m * 1000 * v.d = v.m * result.val.d
            /\ result.val.int <=> (v.m % (1000 * v.d) = 0)

C5_Witness ==
    /\ xpc = "done"
    /\ content = <<"2", "5", "0", "0", "0">>
    /\ result = Returned(IntNum(25))

\* C6: a content string whose numeric value is at most 1000 (1000 itself
\* included) yields that value unchanged: an int when it is whole, a float
\* otherwise.
C6_UpToThresholdUnchanged ==
    LET v == NumericValue(content)
    IN (xpc = "done" /\ v.ok /\ v.m <= 1000 * v.d)
         => /\ result.exc = "none"
            /\ result.val.m * v.d = v.m * result.val.d
            /\ result.val.int <=> (v.m % v.d = 0)

C6_Witness ==
    /\ xpc = "done"
    /\ content = <<"1", "4", ".", "5", " ", "m", "p", "g">>
    /\ result = Returned(FloatNum(145, 10))

\* C7: a content string without any digit or decimal point, or whose digits
\* and decimal points do not form a number, yields 0 and raises nothing.
C7_UnparsableYieldsZero ==
    (xpc = "done" /\ (\/ \A i \in 1..Len(content) : ~IsNumericChar(content[i])
                      \/ ~NumericValue(content).ok))
      => result = Returned(Zero)

C7_Witness ==
    /\ xpc = "done"
    /\ content = <<"1", ".", "2", ".", "3">>
    /\ result = Returned(Zero)

\* the number of lines of a content string that hold more than whitespace
NonEmptyLineCount(c) ==
    LET lines == SplitLines(c)
    IN Cardinality({ i \in 1..Len(lines) :
                       \E j \in 1..Len(lines[i]) : lines[i][j] \notin Whitespace })

\* the answer to the car-list request is a failure, or a list that does not
\* hold exactly the required number of non-empty lines
BadCarListAnswer(r) ==
    \/ r \in FailedResponses
    \/ \E c \in CarListContents : IsCompletion(r, c) /\ NonEmptyLineCount(c) # NumCars

\* C2: when the catalog has to be regenerated and the car-list request
\* fails or brings a list without exactly the required number of non-empty
\* lines, the process ends with a nonzero exit code, and neither the catalog
\* file nor the value-matrix file is written: the load attempt and the
\* failed fetch both leave them as they were.
C2_FailedFetchExitsWithoutWrite ==
    [][ /\ pc = "load" => (catFile' = catFile /\ valFile' = valFile)
        /\ (pc = "fetch" /\ BadCarListAnswer(lastResp'))
             => /\ pc' \in {"exited", "crashed"}
                /\ exitCode' > 0
                /\ catFile' = catFile
                /\ valFile' = valFile
                /\ catWrites' = 0
                /\ valWrites' = 0 ]_vars

C2_Witness ==
    /\ pc = "exited"
    /\ error = [exc |-> "SystemExit", at |-> "fetch"]
    /\ exitCode = 1
    /\ IsCompletion(lastResp, JoinLines(FirstCars(NumCars - 1)))
    /\ catFile = FileOf(Dump(CatalogData(FirstCars(NumCars + 1), FirstKpis(NumKpis))))

\* the catalog file exists, is JSON, holds the KPI key and, under the car
\* key (or, without it, under the legacy key), exactly the required number
\* of cars
HoldsFullCatalog(file) ==
    /\ file.exists
    /\ JsonLoads(file.text).exc = "none"
    /\ LET data == JsonLoads(file.text).val
       IN /\ Has(data, KpiKey)
          /\ \/ Has(data, CarKey) /\ Len(Get(data, CarKey).a) = NumCars
             \/ /\ ~Has(data, CarKey)
                /\ Has(data, LegacyCarKey)
                /\ Len(Get(data, LegacyCarKey).a) = NumCars

IsSample(kpis) ==
    /\ Len(kpis) = NumKpis
    /\ \A i \in 1..Len(kpis) : \E j \in 1..Len(all_kpis) : kpis[i] = all_kpis[j]
    /\ \A i, j \in 1..Len(kpis) : i # j => kpis[i] # kpis[j]

\* C3: on start the catalog is taken from the file, with no car-list request
\* and no catalog write, exactly when the file loads with the required
\* number of cars; otherwise (file absent, not JSON, a key missing, another
\* number of cars) the regeneration branch is taken: one car-list request,
\* and, when it brings the cars, a fresh KPI sample and a catalog write.
C3_RegeneratesUnlessFullCatalog ==
    /\ [][ /\ pc = "load" =>
                IF HoldsFullCatalog(catFile)
                THEN pc' = "cells" /\ branch' = "load" /\ calls' = calls
                     /\ catFile' = catFile /\ catWrites' = 0
                ELSE pc' = "fetch" /\ branch' = "regen"
           /\ pc = "fetch" =>
                /\ calls' = <<CarsCall>>
                /\ pc' = "cells" =>
                     /\ IsSample(kpi_list')
                     /\ catWrites' = 1
                     /\ catFile' = FileOf(Dump(CatalogData(car_list', kpi_list'))) ]_vars
    /\ [](branch = "load" => (catWrites = 0 /\ \A i \in 1..Len(calls) : calls[i] # CarsCall))

C3_Witness ==
    /\ pc = "fetch"
    /\ loadExc = [exc |-> "KeyError", msg |-> "Need 20 cars (10 ICE + 10 EV)"]
    /\ catFile = FileOf(Dump(CatalogData(FirstCars(NumCars - 1), FirstKpis(NumKpis))))

\* C4: once the catalog step is over and the run goes on, the KPI list holds
\* exactly the sampled number of KPIs and the car list exactly the required
\* number of cars, and neither list changes while the run lasts.
C4_CatalogSizesFixed ==
    /\ [](Live => (Len(kpi_list) = NumKpis /\ Len(car_list) = NumCars))
    /\ [][(Live /\ Live') => (kpi_list' = kpi_list /\ car_list' = car_list)]_vars

\* C8: computing the averages stores, under the "Average" key, one entry per
\* KPI of the KPI list and no other, each the arithmetic mean of that KPI's
\* values over the entries of the car list, and leaves every car's row as
\* it was.
C8_AverageIsMeanOverCarList ==
    [][ pc = "average" =>
          LET row == Get(car_kpi_data', AverageKey)
              n == Len(car_list)
          IN /\ Has(car_kpi_data', AverageKey)
             /\ \A j \in 1..Len(row.m) : \E k \in 1..Len(kpi_list) : row.m[j].k = kpi_list[k]
             /\ \A k \in 1..Len(kpi_list) :
                  /\ Has(row, kpi_list[k])
                  /\ LET avg == Get(row, kpi_list[k]).n
                         total == SumNums([i \in 1..n |->
                                     Cell(car_kpi_data, car_list[i], kpi_list[k]).n])
                     IN avg.m * total.d * n = total.m * avg.d
             /\ \A i \in 1..n :
                  Get(car_kpi_data', car_list[i]) = Get(car_kpi_data, car_list[i]) ]_vars

C8_Witness ==
    /\ pc = "save"
    /\ Len(car_list) = NumCars
    /\ \E k \in 1..Len(kpi_list) :
         LET avg == Get(Get(car_kpi_data, AverageKey), kpi_list[k]).n
         IN avg.m > 0 /\ avg.m < 25 * avg.d

\* C9: a catalog written by a regeneration is read back by the next start
\* of the collector: that run takes the load branch, and its KPI list and
\* car list are the lists written, element for element.
C9_CatalogRoundTrip ==
    (rerun /\ written.valid /\ catWrites = 0 /\ pc # "load")
      => /\ branch = "load"
         /\ Live => (kpi_list = written.kpis /\ car_list = written.cars)

C9_Witness ==
    /\ rerun
    /\ written.valid
    /\ catWrites = 0
    /\ pc = "cells"
    /\ branch = "load"
    /\ car_list = written.cars
    /\ Len(car_list) = NumCars

InLog(msg) == \E i \in 1..Len(elog) : elog[i] = msg

\* an input file is missing or is not JSON, or validation fails: a required
\* catalog key is missing, the KPI list or the car list is empty or no list,
\* or a car of the catalog has no entry in the value matrix
BadExportInputs(cat, val) ==
    \/ ~cat.exists
    \/ ~val.exists
    \/ JsonLoads(cat.text).exc # "none"
    \/ JsonLoads(val.text).exc # "none"
    \/ LET kd == JsonLoads(cat.text).val
           vd == JsonLoads(val.text).val
       IN \/ ~Has(kd, KpiKey)
          \/ ~Has(kd, CarKey)
          \/ Get(kd, KpiKey).t # "arr"
          \/ Len(Get(kd, KpiKey).a) = 0
          \/ Get(kd, CarKey).t # "arr"
          \/ Len(Get(kd, CarKey).a) = 0
          \/ \E i \in 1..Len(Get(kd, CarKey).a) : ~Has(vd, Get(kd, CarKey).a[i].s)

\* C10: the exporter's main returns 1 and leaves the report file alone when
\* an input file is missing or invalid or validation fails; it returns 1
\* when saving or formatting the report fails; it returns 0 only with the
\* report saved and formatted; with sound inputs it returns 1 for no other
\* reason than a failed save or format, so a KPI missing in a car's entry
\* does not by itself make it return 1.
C10_ExporterExitCodes ==
    /\ [][ (epc = "start" /\ BadExportInputs(catFile, valFile))
             => (epc' = "done" /\ ret' = 1 /\ xlsx' = xlsx) ]_vars
    /\ []( (InLog("Failed to save Excel file. Exiting.")
              \/ InLog("Error during Excel formatting and chart creation"))
             => ret = 1 )
    /\ []( ret = 0
             => /\ InLog("Saved data to Excel file")
                /\ InLog("Successfully created and formatted Excel report")
                /\ xlsx.exists /\ xlsx.formatted /\ xlsx.rows # <<>> )
    /\ []( (ret = 1 /\ ~BadExportInputs(catFile, valFile))
             => \/ InLog("Failed to save Excel file. Exiting.")
                \/ InLog("Error during Excel formatting and chart creation") )

C10_Witness ==
    /\ epc = "done"
    /\ ret = 1
    /\ catFile = FileOf(Dump(CatalogData(FirstCars(NumCars), FirstKpis(NumKpis))))
    /\ valFile = FileOf(Dump(MatrixOf(FirstCars(NumCars - 1), FirstKpis(NumKpis))))
    /\ elog = <<"JSON data validation failed.">>
    /\ xlsx = OldReport

\* the cells of the data sheet a reference covers, top to bottom
RefCells(rows, ref) ==
    [r \in 1..(ref.max_row - ref.min_row + 1) |-> rows[ref.min_row + r - 1][ref.min_col]]

\* the rows of the data sheet that hold cars: all but the header and the
\* trailing "Average" row
CarRows(rows) == SubSeq(rows, 2, Len(rows) - 1)

\* the catalog lists the exporter works on
ExpCars == StrItems(Get(load_json_file(catFile), CarKey))
ExpKpis == StrItems(Get(load_json_file(catFile), KpiKey))

\* C11 as stated: in the report main produces, each KPI's chart on its own
\* sheet has as categories the car names of the data sheet without the
\* trailing "Average" row, and as values that KPI's column over the same
\* rows: one data point per car, none for the average.
C11_ChartsExcludeAverage ==
    ret = 0 =>
      /\ Len(xlsx.charts) = Len(ExpKpis)
      /\ \A j \in 1..Len(xlsx.charts) :
           LET chart == xlsx.charts[j]
               cars == CarRows(xlsx.rows)
           IN /\ chart.kpi = ExpKpis[j]
              /\ RefCells(xlsx.rows, chart.categories) = [i \in 1..Len(cars) |-> cars[i][1]]
              /\ RefCells(xlsx.rows, chart.values) = [i \in 1..Len(cars) |-> cars[i][j + 1]]
              /\ Len(RefCells(xlsx.rows, chart.values)) = Len(ExpCars)

\* C11 as amended: in the report main produces, each KPI's chart on its own
\* sheet has as categories the first column of every data row of the data
\* sheet, the trailing "Average" row included, and as values that KPI's
\* column over the same rows: one data point per car of the catalog, in
\* catalog order, and a last one for the average.  Only the miniature charts
\* of the dashboard sheet leave the average row out.
C11_ChartsIncludeAverage ==
    ret = 0 =>
      /\ Len(xlsx.charts) = Len(ExpKpis)
      /\ \A j \in 1..Len(xlsx.charts) :
           LET chart == xlsx.charts[j]
               data == Tail(xlsx.rows)
               cats == RefCells(xlsx.rows, chart.categories)
               vals == RefCells(xlsx.rows, chart.values)
           IN /\ chart.kpi = ExpKpis[j]
              /\ xlsx.rows[1][j + 1] = JStr(chart.kpi)
              /\ cats = [i \in 1..Len(data) |-> data[i][1]]
              /\ vals = [i \in 1..Len(data) |-> data[i][j + 1]]
              /\ Len(cats) = Len(ExpCars) + 1
              /\ \A i \in 1..Len(ExpCars) : cats[i] = JStr(ExpCars[i])
              /\ cats[Len(cats)] = JStr(AverageKey)
      /\ Len(xlsx.minis) = Len(ExpKpis)
      /\ \A j \in 1..Len(xlsx.minis) :
           LET mini == xlsx.minis[j]
               cars == CarRows(xlsx.rows)
           IN /\ mini.kpi = ExpKpis[j]
              /\ RefCells(xlsx.rows, mini.categories) = [i \in 1..Len(cars) |-> cars[i][1]]
              /\ RefCells(xlsx.rows, mini.values) = [i \in 1..Len(cars) |-> cars[i][j + 1]]

C11_Witness ==
    /\ epc = "done"
    /\ ret = 0
    /\ Len(xlsx.charts) = NumKpis
    /\ Len(ExpCars) = NumCars
    /\ LET cats == RefCells(xlsx.rows, xlsx.charts[NumKpis].categories)
           vals == RefCells(xlsx.rows, xlsx.charts[NumKpis].values)
       IN /\ cats[Len(cats)] = JStr(AverageKey)
          /\ Len(vals) = NumCars + 1
          /\ vals[1].n.m > 0

\* the dashboard got as far as the call-outs: the catalog names cars and the
\* matrix holds an entry for each of them
CallOutsReached ==
    /\ dpc \in {"best", "worst", "done", "crashed"}
    /\ dashCars # <<>>
    /\ \A i \in 1..Len(dashCars) : Has(dashValues, dashCars[i])

\* the lines name, KPI by KPI, a catalog car whose value (0 when the car has
\* no entry for the KPI) is extreme among the catalog cars
ExtremeCallOuts(lines, top) ==
    /\ Len(lines) = Len(FirstThree(dashKpis))
    /\ \A k \in 1..Len(lines) :
         /\ lines[k].kpi = dashKpis[k]
         /\ \E i \in 1..Len(dashCars) : lines[k].car = dashCars[i]
         /\ \A j \in 1..Len(dashCars) :
              LET mine == CallOutKey(dashValues, lines[k].car, lines[k].kpi)
                  other == CallOutKey(dashValues, dashCars[j], lines[k].kpi)
              IN IF top THEN ~NumLess(mine, other) ELSE ~NumLess(other, mine)

\* C12: in the dashboard, for each of the first three KPIs the "best"
\* call-out names a car whose value for the KPI is the maximum over the
\* catalog cars and the "worst" call-out a car whose value is the minimum,
\* a car without an entry for the KPI counting as 0; with every catalog car
\* in the matrix, the call-outs are produced without failure, whatever KPI
\* entries the cars lack.
C12_CallOutsBestAndWorst ==
    CallOutsReached =>
      /\ dpc # "crashed"
      /\ dashExc = "none"
      /\ dpc \in {"worst", "done"} => ExtremeCallOuts(best, TRUE)
      /\ dpc = "done" => ExtremeCallOuts(worst, FALSE)

\* the per-cell requests of a catalog, in car-major order: every KPI of the
\* first car, then every KPI of the second, ...
CellCalls(cars_, kpis_) ==
    [n \in 1..(Len(cars_) * Len(kpis_)) |->
       CellCall(cars_[((n - 1) \div Len(kpis_)) + 1], kpis_[((n - 1) % Len(kpis_)) + 1])]

\* the requests a run makes when it completes: the car-list request first
\* when the catalog was regenerated, then the per-cell requests
ExpectedCalls ==
    (IF branch = "regen" THEN <<CarsCall>> ELSE <<>>) \o CellCalls(car_list, kpi_list)

\* C13: a collector run that completes has called the API exactly once for
\* each (car, KPI) pair of its catalog, in car-major order, after exactly
\* one call for the car list if and only if the catalog was regenerated;
\* while it runs, the calls made are the first ones of that sequence; with
\* the full number of cars and KPIs the total is their product or one more.
C13_OneCallPerCell ==
    /\ Live => /\ Len(calls) <= Len(ExpectedCalls)
               /\ calls = SubSeq(ExpectedCalls, 1, Len(calls))
    /\ pc = "done" =>
         /\ calls = ExpectedCalls
         /\ (branch = "regen") <=> (\E n \in 1..Len(calls) : calls[n] = CarsCall)
         /\ Len(kpi_list) = NumKpis =>
              Len(calls) = NumCars * NumKpis + (IF branch = "regen" THEN 1 ELSE 0)

C13_Witness ==
    /\ pc = "done"
    /\ branch = "regen"
    /\ Len(calls) = NumCars * NumKpis + 1
    /\ calls[1] = CarsCall
    /\ calls[Len(calls)] = CellCall(car_list[NumCars], kpi_list[NumKpis])

\* the matrix d holds a number for every car of cars_ and KPI of kpis_, and
\* an "Average" row with a number for every KPI
FullMatrix(d, cars_, kpis_) ==
    /\ \A i \in 1..Len(cars_) :
         /\ Has(d, cars_[i])
         /\ \A j \in 1..Len(kpis_) :
              Has(Get(d, cars_[i]), kpis_[j]) /\ Cell(d, cars_[i], kpis_[j]).t = "num"
    /\ Has(d, AverageKey)
    /\ \A j \in 1..Len(kpis_) :
         Has(Get(d, AverageKey), kpis_[j]) /\ Cell(d, AverageKey, kpis_[j]).t = "num"

IsCellCall(c) == c.kind = "cell"
CellCallsMade == SelectSeq(calls, IsCellCall)

\* C14: in a collector run the value-matrix file is written at most once,
\* by the save step only, after every cell has been assigned and the
\* "Average" row computed, and what it then holds is that full matrix; a
\* regenerated catalog is written before the first per-cell query; the
\* per-cell queries never touch the value-matrix file, so a run that aborts
\* among them leaves it as it was, also when the catalog file has been
\* replaced.
C14_ValueFileWrittenLastAndWhole ==
    /\ [](valWrites <= 1 /\ catWrites <= 1)
    /\ [][ (valFile' # valFile \/ valWrites' > valWrites)
             => /\ pc = "save" /\ pc' = "done"
                /\ valWrites = 0 /\ valWrites' = 1
                /\ Len(CellCallsMade) = Len(car_list) * Len(kpi_list)
                /\ FullMatrix(car_kpi_data, car_list, kpi_list)
                /\ valFile' = FileOf(Dump(car_kpi_data)) ]_vars
    /\ [](valWrites = 1
            => /\ pc = "done"
               /\ load_json(valFile).exc = "none"
               /\ FullMatrix(load_json(valFile).val, car_list, kpi_list))
    /\ [][ (catFile' # catFile \/ catWrites' > catWrites)
             => /\ pc = "fetch" /\ pc' = "cells"
                /\ CellCallsMade = <<>>
                /\ catWrites' = 1 ]_vars
    /\ []((branch = "regen" /\ CellCallsMade # <<>>)
            => /\ catWrites = 1
               /\ catFile = FileOf(Dump(CatalogData(written.cars, written.kpis))))
    /\ [][ pc = "cells" => valFile' = valFile ]_vars
    /\ []((pc = "crashed" /\ error.at = "cells") => valWrites = 0)

C14_Witness ==
    /\ pc = "crashed"
    /\ error.at = "cells"
    /\ Len(CellCallsMade) > 1
    /\ catWrites = 1
    /\ catFile = FileOf(Dump(CatalogData(written.cars, written.kpis)))
    /\ valWrites = 0
    /\ valFile = FileOf(Dump(OldValues))

\* C15: after a collector run that completes and writes the value-matrix
\* file, the catalog file and the value-matrix file on disk load and pass
\* the exporter's validate_json_data, with both catalog keys present, both
\* lists non-empty, every catalog car in the matrix and no KPI of the
\* catalog missing in a car's entry; also when the collector took its
\* catalog through the legacy car-list key.
C15_CollectorFilesPassValidation ==
    (pc = "done" /\ valWrites = 1)
      => LET kpi_data_ == load_json_file(catFile)
             values_data_ == load_json_file(valFile)
         IN /\ Truthy(kpi_data_)
            /\ Truthy(values_data_)
            /\ validate_json_data(kpi_data_, values_data_)
            /\ MissingKpis(kpi_data_, values_data_) = {}
====
